---- MODULE Spec2Model ----
(***************************************************************************)
(* State-machine model of the MatchUpGame contract (src/unnamed/part_000): *)
(* user registry, game ledger, daily challenges, leaderboard and rank.     *)
(* Each external function is one action (a transaction either commits all  *)
(* of its writes or reverts with none); view functions are operators over  *)
(* the current state.  The game screen of the web client                   *)
(* (src/unnamed/part_005) is modelled by its React state, the pending      *)
(* match check and the calls of updateGameStats; the difficulty conversion *)
(* of the game service (src/frontend/src/web3/gameService.js) by its       *)
(* argument and result.                                                    *)
(***************************************************************************)
EXTENDS Integers, Sequences, FiniteSets, TLC

VARIABLES users, gameResults, dailyChallenges, userGameIds, userAddresses,
          totalGames, totalUsers, now, revert, events,
          cards, gameStarted, gameDifficulty,
          timer, isRunning, gameOver, flippedCards, matchedCards,
          disableClicks, checkMatch, submitted,
          difficultyArg, difficultyNum

ledger == <<users, gameResults, dailyChallenges, userGameIds, userAddresses,
            totalGames, totalUsers>>
\* the state of a game in play: timer, isRunning, gameOver, flippedCards,
\* matchedCards and disableClicks of the React state, the checkMatch call in
\* progress and the calls of updateGameStats made for the game on the board
play == <<timer, isRunning, gameOver, flippedCards, matchedCards,
          disableClicks, checkMatch, submitted>>
\* the argument and the result of the last getDifficultyNumber call
service == <<difficultyArg, difficultyNum>>
\* the state of the web client
screen == <<cards, gameStarted, gameDifficulty, play, service>>
\* the state of the contract and of the chain
chain == <<ledger, now, revert, events>>
vars == <<users, gameResults, dailyChallenges, userGameIds, userAddresses,
          totalGames, totalUsers, now, revert, events,
          cards, gameStarted, gameDifficulty,
          timer, isRunning, gameOver, flippedCards, matchedCards,
          disableClicks, checkMatch, submitted,
          difficultyArg, difficultyNum>>

(***************************************************************************)
(* Bounds of the model.                                                    *)
(***************************************************************************)
\* successful recordGame calls explored
MaxGames == 2
\* whole days the clock may advance past Genesis
MaxDays == 1
\* seconds the clock may advance within a day
MaxSeconds == 1
\* periods of thirty days the clock may advance past Genesis
MaxMonths == 1

(***************************************************************************)
(* Program constants.                                                      *)
(***************************************************************************)
EASY_POINTS == 50
MEDIUM_POINTS == 100
HARD_POINTS == 150
DAILY_MULTIPLIER == 2
MAX_NAME_BYTES == 50
MAX_DIFFICULTY == 2
MAX_LIMIT == 100
SECONDS_PER_DAY == 86400

(***************************************************************************)
(* Inputs.                                                                 *)
(***************************************************************************)
\* msg.sender values
Addrs == {"A", "B", "C"}
\* address(0), the default value of an address slot
ZeroAddress == "0x0"

\* A display name is a sequence of runs of characters: a run gives how many
\* characters it has and how many bytes the UTF-8 encoding of each takes
\* (1 for ASCII, 3 for e.g. CJK).  The contract reads the length of a name
\* and stores it, and never looks at the characters themselves.
Ascii(n) == <<[count |-> n, width |-> 1]>>
Wide(n) == <<[count |-> n, width |-> 3]>>
NameA == Ascii(1)
NameFifty == Ascii(MAX_NAME_BYTES)
Names == {<<>>, NameA, NameFifty, Ascii(MAX_NAME_BYTES + 1), Wide(17)}

\* uint8 _difficulty values tried: the three levels, the first invalid one
Difficulties == 0..(MAX_DIFFICULTY + 1)
\* _timeSpent values tried
TimeSpents == {0, 30, 999}
\* block.timestamp of the first block
Genesis == 19675 * SECONDS_PER_DAY + 80000

(***************************************************************************)
(* Pure helpers.                                                           *)
(***************************************************************************)
\* a length that counts characters instead of bytes
RECURSIVE BytesLengthCountsCharacters(_)
BytesLengthCountsCharacters(name) ==
    IF name = <<>> THEN 0
    ELSE Head(name).count + BytesLengthCountsCharacters(Tail(name))

\* bytes(_displayName).length
RECURSIVE BytesLength(_)
BytesLength(name) ==
    IF name = <<>> THEN 0
    ELSE Head(name).count * Head(name).width + BytesLength(Tail(name))

\* the default (all-zero) value of a User slot
EmptyUser == [displayName |-> <<>>, totalPoints |-> 0, gamesPlayed |-> 0,
              gamesWon |-> 0, bestTime |-> 0, joinedAt |-> 0,
              lastGameAt |-> 0, exists |-> FALSE]

\* a points computation that forgets the daily multiplier
PointsWithoutMultiplier(won, difficulty, isDailyChallenge) ==
    IF won
    THEN IF difficulty = 0 THEN EASY_POINTS
         ELSE IF difficulty = 1 THEN MEDIUM_POINTS
         ELSE HARD_POINTS
    ELSE 0

\* points computed by recordGame
Points(won, difficulty, isDailyChallenge) ==
    IF won
    THEN LET base == IF difficulty = 0 THEN EASY_POINTS
                     ELSE IF difficulty = 1 THEN MEDIUM_POINTS
                     ELSE HARD_POINTS
         IN IF isDailyChallenge THEN base * DAILY_MULTIPLIER ELSE base
    ELSE 0

\* a best-time update without the timeSpent > 0 test
NewBestTimeAcceptsZero(bestTime, timeSpent) ==
    IF bestTime = 0 \/ timeSpent < bestTime
    THEN timeSpent
    ELSE bestTime

\* a best-time update that keeps the latest time instead of the shortest
NewBestTimeLatest(bestTime, timeSpent) ==
    IF timeSpent > 0 THEN timeSpent ELSE bestTime

\* the best-time update of recordGame
NewBestTime(bestTime, timeSpent) ==
    IF timeSpent > 0 /\ (bestTime = 0 \/ timeSpent < bestTime)
    THEN timeSpent
    ELSE bestTime

\* a stats update that counts a game as played only when it is lost
UpdateStatsPlayedOnLoss(user, won, points, timeSpent, timestamp) ==
    IF won
    THEN [user EXCEPT !.lastGameAt = timestamp,
                      !.gamesWon = @ + 1,
                      !.totalPoints = @ + points,
                      !.bestTime = NewBestTime(@, timeSpent)]
    ELSE [user EXCEPT !.gamesPlayed = @ + 1, !.lastGameAt = timestamp]

\* a stats update that adds the points of a won game twice
UpdateStatsPointsTwice(user, won, points, timeSpent, timestamp) ==
    LET played == [user EXCEPT !.gamesPlayed = @ + 1, !.lastGameAt = timestamp]
    IN IF won
       THEN [played EXCEPT !.gamesWon = @ + 1,
                           !.totalPoints = @ + points + points,
                           !.bestTime = NewBestTime(@, timeSpent)]
       ELSE played

\* a stats update that takes the time of a lost game as a best time
UpdateStatsTimesLosses(user, won, points, timeSpent, timestamp) ==
    LET played == [user EXCEPT !.gamesPlayed = @ + 1, !.lastGameAt = timestamp,
                               !.bestTime = NewBestTime(@, timeSpent)]
    IN IF won
       THEN [played EXCEPT !.gamesWon = @ + 1,
                           !.totalPoints = @ + points]
       ELSE played

\* a stats update that stamps the time of won games only
UpdateStatsStampsWins(user, won, points, timeSpent, timestamp) ==
    LET played == [user EXCEPT !.gamesPlayed = @ + 1]
    IN IF won
       THEN [played EXCEPT !.lastGameAt = timestamp,
                           !.gamesWon = @ + 1,
                           !.totalPoints = @ + points,
                           !.bestTime = NewBestTime(@, timeSpent)]
       ELSE played

\* the user-stats update of recordGame
UpdateStats(user, won, points, timeSpent, timestamp) ==
    LET played == [user EXCEPT !.gamesPlayed = @ + 1, !.lastGameAt = timestamp]
    IN IF won
       THEN [played EXCEPT !.gamesWon = @ + 1,
                           !.totalPoints = @ + points,
                           !.bestTime = NewBestTime(@, timeSpent)]
       ELSE played

\* a date encoder without the clamp of the month
GetCurrentDateUnclamped(timestamp) ==
    LET daysSinceEpoch == timestamp \div SECONDS_PER_DAY
        dayOfYear == daysSinceEpoch % 365
        month == (dayOfYear \div 30) + 1
        day0 == (dayOfYear % 30) + 1
        day == IF day0 > 31 THEN 31 ELSE day0
    IN 2024 * 10000 + month * 100 + day

\* getCurrentDate() at block.timestamp = timestamp
GetCurrentDate(timestamp) ==
    LET daysSinceEpoch == timestamp \div SECONDS_PER_DAY
        year == 2024
        dayOfYear == daysSinceEpoch % 365
        month0 == (dayOfYear \div 30) + 1
        day0 == (dayOfYear % 30) + 1
        month == IF month0 > 12 THEN 12 ELSE month0
        day == IF day0 > 31 THEN 31 ELSE day0
    IN year * 10000 + month * 100 + day

\* a write that forgets every other key of the mapping
StoreAlone(mapping, key, value) == [k \in {key} |-> value]

\* a write that leaves a key already written as it is
StoreOnce(mapping, key, value) ==
    [k \in DOMAIN mapping \cup {key} |->
        IF k \in DOMAIN mapping THEN mapping[k] ELSE value]

\* write value under key of a mapping (only written keys are kept)
Store(mapping, key, value) ==
    [k \in DOMAIN mapping \cup {key} |-> IF k = key THEN value ELSE mapping[k]]

(***************************************************************************)
(* The difficulty conversion of the game service                           *)
(* (src/frontend/src/web3/gameService.js).  A JavaScript value is a record *)
(* with its type, its number if it is one and its text if it is a string;  *)
(* a text is a sequence of letters, each with its case.                    *)
(***************************************************************************)
Number(n) == [type |-> "number", number |-> n, text |-> <<>>]
String(text) == [type |-> "string", number |-> 0, text |-> text]
Valueless(type) == [type |-> type, number |-> 0, text |-> <<>>]
Undefined == Valueless("undefined")

\* The checkMatch of the card flipping effect: where it stands (idle, or in
\* one of its three waits), the two indices and the comparison of the two
\* cards it took when it began, and whether the timer has ticked during the
\* wait it is in.
NoCheck ==
    [pc |-> "idle", firstIndex |-> 0, secondIndex |-> 0, matches |-> FALSE,
     ticked |-> FALSE]

(***************************************************************************)
(* Transactions.                                                           *)
(***************************************************************************)
Init ==
    /\ users = [a \in Addrs |-> EmptyUser]
    /\ gameResults = <<>>
    /\ dailyChallenges = <<>>
    /\ userGameIds = [a \in Addrs |-> <<>>]
    /\ userAddresses = <<>>
    /\ totalGames = 0
    /\ totalUsers = 0
    /\ now = Genesis
    /\ revert = ""
    /\ events = <<>>
    /\ cards = <<>>
    /\ gameStarted = FALSE
    /\ gameDifficulty = "Medium"
    /\ timer = 60
    /\ isRunning = FALSE
    /\ gameOver = FALSE
    /\ flippedCards = <<>>
    /\ matchedCards = <<>>
    /\ disableClicks = FALSE
    /\ checkMatch = NoCheck
    /\ submitted = <<>>
    /\ difficultyArg = Undefined
    /\ difficultyNum = Undefined

\* a failed require: every write of the transaction is undone
Revert(message) ==
    /\ revert' = message
    /\ events' = <<>>
    /\ UNCHANGED <<ledger, now, screen>>

\* a creation that forgets to count the new identity
CreateUserUncounted(sender, displayName) ==
    /\ users' = [users EXCEPT ![sender] =
            [displayName |-> displayName, totalPoints |-> 0,
             gamesPlayed |-> 0, gamesWon |-> 0, bestTime |-> 0,
             joinedAt |-> now, lastGameAt |-> 0, exists |-> TRUE]]
    /\ userAddresses' = Append(userAddresses, sender)
    /\ events' = <<[type |-> "UserRegistered", user |-> sender,
                    displayName |-> displayName]>>
    /\ UNCHANGED totalUsers

\* a creation that puts the new identity first in the registration order
CreateUserAtFront(sender, displayName) ==
    /\ users' = [users EXCEPT ![sender] =
            [displayName |-> displayName, totalPoints |-> 0,
             gamesPlayed |-> 0, gamesWon |-> 0, bestTime |-> 0,
             joinedAt |-> now, lastGameAt |-> 0, exists |-> TRUE]]
    /\ userAddresses' = <<sender>> \o userAddresses
    /\ totalUsers' = totalUsers + 1
    /\ events' = <<[type |-> "UserRegistered", user |-> sender,
                    displayName |-> displayName]>>

\* the branch of registerUser taken by an identity without a record
CreateUser(sender, displayName) ==
    /\ users' = [users EXCEPT ![sender] =
            [displayName |-> displayName, totalPoints |-> 0,
             gamesPlayed |-> 0, gamesWon |-> 0, bestTime |-> 0,
             joinedAt |-> now, lastGameAt |-> 0, exists |-> TRUE]]
    /\ userAddresses' = Append(userAddresses, sender)
    /\ totalUsers' = totalUsers + 1
    /\ events' = <<[type |-> "UserRegistered", user |-> sender,
                    displayName |-> displayName]>>

\* a rename that writes a fresh record over the existing one
RenameUserResets(sender, displayName) ==
    /\ users' = [users EXCEPT ![sender] =
            [displayName |-> displayName, totalPoints |-> 0,
             gamesPlayed |-> 0, gamesWon |-> 0, bestTime |-> 0,
             joinedAt |-> now, lastGameAt |-> 0, exists |-> TRUE]]
    /\ events' = <<[type |-> "DisplayNameUpdated", user |-> sender,
                    newDisplayName |-> displayName]>>
    /\ UNCHANGED <<userAddresses, totalUsers>>

\* a rename that also stamps the record with the current time
RenameUserRejoins(sender, displayName) ==
    /\ users' = [users EXCEPT ![sender].displayName = displayName,
                              ![sender].joinedAt = now]
    /\ events' = <<[type |-> "DisplayNameUpdated", user |-> sender,
                    newDisplayName |-> displayName]>>
    /\ UNCHANGED <<userAddresses, totalUsers>>

\* a rename that also records the call as the identity's last activity
RenameUserTouches(sender, displayName) ==
    /\ users' = [users EXCEPT ![sender].displayName = displayName,
                              ![sender].lastGameAt = now]
    /\ events' = <<[type |-> "DisplayNameUpdated", user |-> sender,
                    newDisplayName |-> displayName]>>
    /\ UNCHANGED <<userAddresses, totalUsers>>

\* the branch of registerUser taken by an identity with a record
RenameUser(sender, displayName) ==
    /\ users' = [users EXCEPT ![sender].displayName = displayName]
    /\ events' = <<[type |-> "DisplayNameUpdated", user |-> sender,
                    newDisplayName |-> displayName]>>
    /\ UNCHANGED <<userAddresses, totalUsers>>

RegisterUser(sender, displayName) ==
    IF ~(BytesLength(displayName) > 0)
    THEN Revert("Display name cannot be empty")
    ELSE IF ~(BytesLength(displayName) <= MAX_NAME_BYTES)
    THEN Revert("Display name too long")
    ELSE /\ IF ~users[sender].exists
            THEN CreateUser(sender, displayName)
            ELSE RenameUser(sender, displayName)
         /\ revert' = ""
         /\ UNCHANGED <<gameResults, dailyChallenges, userGameIds, totalGames, now,
                        screen>>

\* a precondition that also refuses an identity whose challenge of the day
\* is completed
UserExistsOncePerDay(sender) ==
    /\ users[sender].exists
    /\ <<sender, GetCurrentDate(now)>> \notin DOMAIN dailyChallenges

\* the require of modifier userExists
UserExists(sender) == users[sender].exists

\* a difficulty test that is off by one
ValidDifficultyOffByOne(difficulty) == difficulty <= MAX_DIFFICULTY + 1

\* the require of modifier validDifficulty
ValidDifficulty(difficulty) == difficulty <= MAX_DIFFICULTY

\* an id assignment that counts the game twice
NextGameIdSkips(total) == total + 2

\* totalGames++ : the new value is the id of the game
NextGameId(total) == total + 1

\* a persisted time that keeps the raw argument
PersistedTimeRaw(won, timeSpent) == timeSpent

\* timeSpent of the stored GameResult: _won ? _timeSpent : 0
PersistedTime(won, timeSpent) == IF won THEN timeSpent ELSE 0

\* a daily-challenge test that forgets the outcome of the game
CompletesDailyChallengeLost(won, isDailyChallenge) == isDailyChallenge

\* the test guarding the daily-challenge write: _won && _isDailyChallenge
CompletesDailyChallenge(won, isDailyChallenge) == won /\ isDailyChallenge

\* facts emitted in the opposite order
DailyFactsReversed(dailyFact, completedFact) == <<completedFact, dailyFact>>

\* the two emit statements of a won daily challenge, in source order
DailyFacts(dailyFact, completedFact) == <<dailyFact, completedFact>>

\* a GameCompleted fact that carries the time as it is persisted
GameCompletedFactNormalized(sender, gameId, won, difficulty, timeSpent, points) ==
    [type |-> "GameCompleted", user |-> sender, gameId |-> gameId, won |-> won,
     difficulty |-> difficulty, timeSpent |-> IF won THEN timeSpent ELSE 0,
     pointsEarned |-> points]

\* emit GameCompleted(msg.sender, totalGames, _won, _difficulty, _timeSpent,
\* points)
GameCompletedFact(sender, gameId, won, difficulty, timeSpent, points) ==
    [type |-> "GameCompleted", user |-> sender, gameId |-> gameId, won |-> won,
     difficulty |-> difficulty, timeSpent |-> timeSpent, pointsEarned |-> points]

\* a push that puts the new id in front of the list
PushGameIdInFront(gameIds, gameId) == <<gameId>> \o gameIds

\* userGameIds[msg.sender].push(totalGames)
PushGameId(gameIds, gameId) == Append(gameIds, gameId)

\* a daily-challenge slot shared by all identities
DailyKeyShared(sender, today) == <<ZeroAddress, today>>

\* the slot dailyChallenges[msg.sender][today]
DailyKey(sender, today) == <<sender, today>>

RecordGame(sender, won, difficulty, timeSpent, isDailyChallenge) ==
    IF ~UserExists(sender)
    THEN Revert("User not registered")
    ELSE IF ~ValidDifficulty(difficulty)
    THEN Revert("Invalid difficulty level")
    ELSE LET gameId == NextGameId(totalGames)
             points == Points(won, difficulty, isDailyChallenge)
             gameResult == [gameId |-> gameId, player |-> sender, won |-> won,
                            difficulty |-> difficulty,
                            timeSpent |-> PersistedTime(won, timeSpent),
                            pointsEarned |-> points, timestamp |-> now,
                            isDailyChallenge |-> isDailyChallenge]
             today == GetCurrentDate(now)
             completed == GameCompletedFact(sender, gameId, won, difficulty,
                                            timeSpent, points)
         IN /\ totalGames < MaxGames
            /\ totalGames' = gameId
            /\ users' = [users EXCEPT ![sender] =
                            UpdateStats(@, won, points, timeSpent, now)]
            /\ gameResults' = Store(gameResults, gameId, gameResult)
            /\ userGameIds' = [userGameIds EXCEPT ![sender] = PushGameId(@, gameId)]
            /\ IF CompletesDailyChallenge(won, isDailyChallenge)
               THEN /\ dailyChallenges' = Store(dailyChallenges, DailyKey(sender, today),
                            [date |-> today, difficulty |-> difficulty,
                             completed |-> TRUE, pointsEarned |-> points,
                             completedAt |-> now])
                    /\ events' = DailyFacts([type |-> "DailyChallengeCompleted",
                                             user |-> sender, date |-> today,
                                             difficulty |-> difficulty,
                                             pointsEarned |-> points], completed)
               ELSE /\ UNCHANGED dailyChallenges
                    /\ events' = <<completed>>
            /\ revert' = ""
            /\ UNCHANGED <<userAddresses, totalUsers, now, screen>>

\* the storage of the contract as one value
Ledger ==
    [users |-> users, gameResults |-> gameResults,
     dailyChallenges |-> dailyChallenges, userGameIds |-> userGameIds,
     userAddresses |-> userAddresses, totalGames |-> totalGames,
     totalUsers |-> totalUsers]

\* the storage a recordGame that passes its modifiers leaves, as a function
\* of the storage st it starts from and of block.timestamp
RecordGameOn(st, timestamp, sender, won, difficulty, timeSpent, isDailyChallenge) ==
    LET gameId == NextGameId(st.totalGames)
        points == Points(won, difficulty, isDailyChallenge)
        gameResult == [gameId |-> gameId, player |-> sender, won |-> won,
                       difficulty |-> difficulty,
                       timeSpent |-> PersistedTime(won, timeSpent),
                       pointsEarned |-> points, timestamp |-> timestamp,
                       isDailyChallenge |-> isDailyChallenge]
        today == GetCurrentDate(timestamp)
    IN [st EXCEPT
          !.totalGames = gameId,
          !.users = [@ EXCEPT ![sender] =
                        UpdateStats(@, won, points, timeSpent, timestamp)],
          !.gameResults = Store(@, gameId, gameResult),
          !.userGameIds = [@ EXCEPT ![sender] = PushGameId(@, gameId)],
          !.dailyChallenges =
              IF CompletesDailyChallenge(won, isDailyChallenge)
              THEN Store(@, DailyKey(sender, today),
                         [date |-> today, difficulty |-> difficulty,
                          completed |-> TRUE, pointsEarned |-> points,
                          completedAt |-> timestamp])
              ELSE @]

\* a later block: block.timestamp moves to the next day
Tick ==
    /\ now + SECONDS_PER_DAY <= Genesis + MaxDays * SECONDS_PER_DAY
    /\ now' = now + SECONDS_PER_DAY
    /\ revert' = ""
    /\ events' = <<>>
    /\ UNCHANGED <<ledger, screen>>

\* a later block of the same day: block.timestamp moves by one second
TickSecond ==
    /\ (now - Genesis) % SECONDS_PER_DAY < MaxSeconds
    /\ now' = now + 1
    /\ revert' = ""
    /\ events' = <<>>
    /\ UNCHANGED <<ledger, screen>>

\* a block thirty days later
TickMonth ==
    /\ now + 30 * SECONDS_PER_DAY <= Genesis + MaxMonths * 30 * SECONDS_PER_DAY
    /\ now' = now + 30 * SECONDS_PER_DAY
    /\ revert' = ""
    /\ events' = <<>>
    /\ UNCHANGED <<ledger, screen>>

(***************************************************************************)
(* View functions.  Memory arrays are functions over 0..length-1, as in    *)
(* the source; userAddresses[i] of the source is userAddresses[i + 1].     *)
(***************************************************************************)
\* an insertion comparison that also moves past equal points
OutranksOrTies(currentPoints, otherPoints) == currentPoints >= otherPoints

\* the comparison of the insertion loop: currentPoints > topPoints[j-1]
Outranks(currentPoints, otherPoints) == currentPoints > otherPoints

\* the while loop of getLeaderboard, entered with j
RECURSIVE InsertionLoop(_, _, _, _, _)
InsertionLoop(topUsers, topPoints, j, currentPoints, length) ==
    IF j > 0 /\ Outranks(currentPoints, topPoints[j - 1])
    THEN InsertionLoop(
            IF j < length THEN [topUsers EXCEPT ![j] = topUsers[j - 1]] ELSE topUsers,
            IF j < length THEN [topPoints EXCEPT ![j] = topPoints[j - 1]] ELSE topPoints,
            j - 1, currentPoints, length)
    ELSE [topUsers |-> topUsers, topPoints |-> topPoints, j |-> j]

\* the for loop of getLeaderboard, entered with i
RECURSIVE LeaderboardLoop(_, _, _, _, _)
LeaderboardLoop(i, topUsers, topPoints, limit, length) ==
    IF i < Len(userAddresses) /\ i < limit
    THEN LET currentUser == userAddresses[i + 1]
             currentPoints == users[currentUser].totalPoints
             w == InsertionLoop(topUsers, topPoints, i, currentPoints, length)
         IN LeaderboardLoop(i + 1,
                IF w.j < length THEN [w.topUsers EXCEPT ![w.j] = currentUser]
                                ELSE w.topUsers,
                IF w.j < length THEN [w.topPoints EXCEPT ![w.j] = currentPoints]
                                ELSE w.topPoints,
                limit, length)
    ELSE [topUsers |-> topUsers, topPoints |-> topPoints]

\* a limit test that refuses the largest limit
ValidLimitExclusive(limit) == limit > 0 /\ limit < MAX_LIMIT

\* the require of getLeaderboard: _limit > 0 && _limit <= 100
ValidLimit(limit) == limit > 0 /\ limit <= MAX_LIMIT

GetLeaderboard(limit) ==
    IF ~ValidLimit(limit)
    THEN [revert |-> "Invalid limit", topUsers |-> <<>>, topPoints |-> <<>>]
    ELSE LET length == IF totalUsers < limit THEN totalUsers ELSE limit
             r == LeaderboardLoop(0, [k \in 0..(length - 1) |-> ZeroAddress],
                                  [k \in 0..(length - 1) |-> 0], limit, length)
         IN [revert |-> "", topUsers |-> r.topUsers, topPoints |-> r.topPoints]

\* a rank comparison that also counts equal points
ExceedsOrTies(otherPoints, userPoints) == otherPoints >= userPoints

\* the comparison of the rank loop: totalPoints > userPoints
Exceeds(otherPoints, userPoints) == otherPoints > userPoints

\* the for loop of getUserRank, entered with i
RECURSIVE RankLoop(_, _, _, _)
RankLoop(i, rank, user, userPoints) ==
    IF i < Len(userAddresses)
    THEN RankLoop(i + 1,
            IF userAddresses[i + 1] # user
               /\ Exceeds(users[userAddresses[i + 1]].totalPoints, userPoints)
            THEN rank + 1 ELSE rank,
            user, userPoints)
    ELSE rank

\* a rank that counts the distinct point totals above the identity's
GetUserRankDense(user) ==
    IF ~users[user].exists THEN 0
    ELSE 1 + Cardinality({users[userAddresses[i]].totalPoints :
                            i \in {k \in 1..Len(userAddresses) :
                                users[userAddresses[k]].totalPoints
                                    > users[user].totalPoints}})

\* a rank that starts counting at 0
GetUserRankFromZero(user) ==
    IF ~users[user].exists THEN 0
    ELSE RankLoop(0, 0, user, users[user].totalPoints)

GetUserRank(user) ==
    IF ~users[user].exists THEN 0
    ELSE RankLoop(0, 1, user, users[user].totalPoints)

GetUser(user) == users[user]

(***************************************************************************)
(* The Leaderboard view (src/unnamed/part_002) and the reads of the game   *)
(* service it makes.                                                       *)
(***************************************************************************)
\* the number of players the view asks for
LEADERBOARD_LIMIT == 50

\* gameService.getLeaderboard: the two arrays of the contract as one list of
\* players, the empty list when the call fails
ProcessedLeaderboard(limit) ==
    LET result == GetLeaderboard(limit)
    IN IF result.revert # "" THEN <<>>
       ELSE [index \in 1..(Cardinality(DOMAIN result.topUsers)) |->
                [address |-> result.topUsers[index - 1],
                 totalPoints |-> result.topPoints[index - 1]]]

\* gameService.getUserRank
ServiceGetUserRank(address) == GetUserRank(address)

\* one step of the stable sort: the player goes behind every player with at
\* least its points
InsertByPoints(sorted, player) ==
    LET ahead == Cardinality({k \in 1..Len(sorted) :
                                sorted[k].totalPoints >= player.totalPoints})
    IN SubSeq(sorted, 1, ahead) \o <<player>> \o SubSeq(sorted, ahead + 1, Len(sorted))

\* [...topPlayers].sort((a, b) => b.totalPoints - a.totalPoints)
RECURSIVE SortedPlayers(_)
SortedPlayers(topPlayers) ==
    IF topPlayers = <<>> THEN <<>>
    ELSE InsertByPoints(SortedPlayers(SubSeq(topPlayers, 1, Len(topPlayers) - 1)),
                        topPlayers[Len(topPlayers)])

\* a rank step that moves to the next rank whatever the length of the tie
RankStepDense(currentRank, currentPoints, rankIncrement, points) ==
    IF currentPoints # <<>> /\ points < currentPoints[1]
    THEN [currentRank |-> currentRank + 1, rankIncrement |-> 0]
    ELSE IF currentPoints # <<>> /\ points = currentPoints[1]
    THEN [currentRank |-> currentRank, rankIncrement |-> rankIncrement + 1]
    ELSE [currentRank |-> currentRank, rankIncrement |-> rankIncrement]

\* the body of the rank map for a player with the given points; currentPoints
\* is <<>> for null and <<p>> for the points p of the row before
RankStep(currentRank, currentPoints, rankIncrement, points) ==
    IF currentPoints # <<>> /\ points < currentPoints[1]
    THEN [currentRank |-> currentRank + rankIncrement + 1, rankIncrement |-> 0]
    ELSE IF currentPoints # <<>> /\ points = currentPoints[1]
    THEN [currentRank |-> currentRank, rankIncrement |-> rankIncrement + 1]
    ELSE [currentRank |-> currentRank, rankIncrement |-> rankIncrement]

\* playersWithData.map(...), entered at row i with the rows ranked so far
RECURSIVE RankMap(_, _, _, _, _, _)
RankMap(players, i, currentRank, currentPoints, rankIncrement, ranked) ==
    IF i > Len(players) THEN ranked
    ELSE LET step == RankStep(currentRank, currentPoints, rankIncrement,
                              players[i].totalPoints)
         IN RankMap(players, i + 1, step.currentRank, <<players[i].totalPoints>>,
                    step.rankIncrement,
                    Append(ranked, [address |-> players[i].address,
                                    points |-> players[i].totalPoints,
                                    rank |-> step.currentRank]))

\* the rows loadLeaderboardData hands to setLeaderboard
RankedPlayers ==
    RankMap(SortedPlayers(ProcessedLeaderboard(LEADERBOARD_LIMIT)), 1, 1, <<>>, 0, <<>>)

\* the rank loadLeaderboardData hands to setPlayerRank for a connected address
PlayerRank(address) ==
    LET actualRank == ServiceGetUserRank(address)
    IN IF actualRank # 0 THEN actualRank ELSE Len(RankedPlayers) + 1

\* A uint256 argument is a record: [top |-> FALSE, n |-> k] is the number k
\* and [top |-> TRUE, n |-> k] is 2^256 - 1 - k, so that the numbers next to
\* the largest one are kept exactly.
Word(k) == [top |-> FALSE, n |-> k]
WordFromMax(k) == [top |-> TRUE, n |-> k]

\* a < length, for an array length
WordBelow(a, length) == ~a.top /\ a.n < length

\* the checked uint256 addition a + b of a small number a and a word b
CheckedAdd(a, b) ==
    IF ~b.top THEN [overflow |-> FALSE, sum |-> Word(a + b.n)]
    ELSE IF a <= b.n THEN [overflow |-> FALSE, sum |-> WordFromMax(b.n - a)]
    ELSE [overflow |-> TRUE, sum |-> Word(0)]

\* a result window that always starts at the first game
GameWindowFromStart(gameIds, offset, end) ==
    [i \in 0..(end - offset - 1) |-> gameResults[gameIds[i + 1]]]

\* the results array filled by the loop of getUserGames; gameIds[i] of the
\* source is gameIds[i + 1]
GameWindow(gameIds, offset, end) ==
    [i \in 0..(end - offset - 1) |-> gameResults[gameIds[offset + i + 1]]]

\* a bounds test that lets the offset equal the length
OffsetInBoundsInclusive(offset, length) ==
    WordBelow(offset, length) \/ (~offset.top /\ offset.n = length)

\* the require of getUserGames: _offset < gameIds.length
OffsetInBounds(offset, length) == WordBelow(offset, length)

GetUserGames(user, offset, limit) ==
    LET gameIds == userGameIds[user]
    IN IF ~OffsetInBounds(offset, Len(gameIds))
       THEN [revert |-> "Offset out of bounds", results |-> <<>>]
       ELSE LET added == CheckedAdd(offset.n, limit)
            IN IF added.overflow
               THEN [revert |-> "Panic(0x11)", results |-> <<>>]
               ELSE LET end == IF ~WordBelow(added.sum, Len(gameIds) + 1)
                               THEN Len(gameIds) ELSE added.sum.n
                    IN [revert |-> "",
                        results |-> GameWindow(gameIds, offset.n, end)]

GetTotalUsers == totalUsers

GetTotalGames == totalGames

IsDailyChallengeCompleted(user, date) ==
    IF <<user, date>> \in DOMAIN dailyChallenges
    THEN dailyChallenges[<<user, date>>].completed
    ELSE FALSE

(***************************************************************************)
(* The game screen of the web client (src/unnamed/part_005).  A regular    *)
(* game is modelled; a daily challenge takes its number of pairs from the  *)
(* home page component instead of difficultySettings.                      *)
(***************************************************************************)
\* iconName of the icons of allIcons, in order
AllIcons == <<"bitcoin", "css3-alt", "ethereum", "github", "html5", "java",
              "linux", "react", "js", "python", "node", "docker", "php",
              "vuejs", "angular", "bootstrap", "ubuntu", "apple">>

\* the difficulty names of the selector
DifficultyNames == {"Easy", "Medium", "Hard"}

\* difficultySettings
DifficultySettings ==
    [Easy |-> [time |-> 60, pairs |-> 6],
     Medium |-> [time |-> 60, pairs |-> 8],
     Hard |-> [time |-> 60, pairs |-> 9]]

\* array.slice(0, n)
Slice(array, n) == SubSeq(array, 1, IF n < Len(array) THEN n ELSE Len(array))

\* the cards before they are shuffled: the selected icons twice, numbered in
\* that order, the matchId of a card being the iconName of its icon
DealtCards(pairCount) ==
    LET selectedIcons == Slice(AllIcons, pairCount)
        duplicatedIcons == selectedIcons \o selectedIcons
    IN [i \in 1..Len(duplicatedIcons) |->
            [icon |-> duplicatedIcons[i], id |-> i - 1,
             matchId |-> duplicatedIcons[i]]]

\* sort(() => Math.random() - 0.5) leaves the cards in an order that depends
\* on the random numbers drawn; the orders tried are the rotations
Rotated(array, shift) ==
    [i \in 1..Len(array) |-> array[((i - 1 + shift) % Len(array)) + 1]]

GenerateShuffledCards(pairCount, shift) == Rotated(DealtCards(pairCount), shift)

\* the rotations of the cards of a difficulty
Shifts(name) == 0..(2 * DifficultySettings[name].pairs - 1)

\* onDifficultyChange of the home page, shown while no game is started
SetDifficulty(name) ==
    /\ ~gameStarted
    /\ gameDifficulty' = name
    /\ UNCHANGED <<cards, gameStarted, play, service, chain>>

\* startGame() of a regular game
StartGame(shift) ==
    /\ ~gameStarted
    /\ cards' = GenerateShuffledCards(DifficultySettings[gameDifficulty].pairs, shift)
    /\ timer' = DifficultySettings[gameDifficulty].time
    /\ flippedCards' = <<>>
    /\ matchedCards' = <<>>
    /\ gameStarted' = TRUE
    /\ isRunning' = TRUE
    /\ gameOver' = FALSE
    /\ submitted' = <<>>
    /\ UNCHANGED <<gameDifficulty, disableClicks, checkMatch, service, chain>>

\* restartGame() of a regular game, with its timeout elapsed
RestartGame(shift) ==
    /\ gameStarted
    /\ cards' = GenerateShuffledCards(DifficultySettings[gameDifficulty].pairs, shift)
    /\ flippedCards' = <<>>
    /\ matchedCards' = <<>>
    /\ gameOver' = FALSE
    /\ timer' = DifficultySettings[gameDifficulty].time
    /\ disableClicks' = FALSE
    /\ isRunning' = TRUE
    /\ submitted' = <<>>
    /\ UNCHANGED <<gameStarted, gameDifficulty, checkMatch, service, chain>>

ReturnToHome ==
    /\ gameStarted
    /\ gameStarted' = FALSE
    /\ isRunning' = FALSE
    /\ gameOver' = FALSE
    /\ UNCHANGED <<cards, gameDifficulty, timer, flippedCards, matchedCards,
                   disableClicks, checkMatch, submitted, service, chain>>

\* the difficulty number updateGameStats hands to recordGame
DifficultyNumberOf(name) ==
    IF name = "Easy" THEN 0
    ELSE IF name = "Medium" THEN 1
    ELSE IF name = "Hard" THEN 2
    ELSE 1

\* updateGameStats(isWin) of a connected player in a regular game, seen as the
\* arguments of the recordGame it makes; timeSpent is initialTimeRef.current
\* minus the timer for a win
UpdateGameStats(isWin, timerNow) ==
    [won |-> isWin,
     difficulty |-> DifficultyNumberOf(gameDifficulty),
     timeSpent |-> IF isWin
                   THEN DifficultySettings[gameDifficulty].time - timerNow
                   ELSE 0,
     isDailyChallenge |-> FALSE]

\* One run of the interval callback of the timer effect.  The interval exists
\* while isRunning && !gameOver; its period (1000 ms) is longer than each wait
\* of checkMatch, so it runs at most once during one wait.
TimerTick ==
    /\ isRunning
    /\ ~gameOver
    /\ ~checkMatch.ticked
    /\ IF timer <= 1
       THEN /\ timer' = 0
            /\ isRunning' = FALSE
            /\ gameOver' = TRUE
            /\ submitted' = Append(submitted, UpdateGameStats(FALSE, 0))
       ELSE /\ timer' = timer - 1
            /\ UNCHANGED <<isRunning, gameOver, submitted>>
    /\ checkMatch' = IF checkMatch.pc = "idle" THEN checkMatch
                     ELSE [checkMatch EXCEPT !.ticked = TRUE]
    /\ UNCHANGED <<cards, gameStarted, gameDifficulty, flippedCards, matchedCards,
                   disableClicks, service, chain>>

\* flippedCards.includes(index), matchedCards.includes(index)
Includes(array, index) == \E k \in 1..Len(array) : array[k] = index

\* handleCardClick(index) on a card of the board, and the card flipping effect
\* up to its first wait when the click flips the second card
HandleCardClick(index) ==
    /\ gameStarted
    /\ index \in 0..(Len(cards) - 1)
    /\ ~disableClicks
    /\ ~Includes(flippedCards, index)
    /\ ~Includes(matchedCards, index)
    /\ ~gameOver
    /\ isRunning
    /\ Len(flippedCards) < 2
    /\ flippedCards' = Append(flippedCards, index)
    /\ IF Len(flippedCards) = 1
       THEN /\ disableClicks' = TRUE
            /\ checkMatch' =
                 [pc |-> "wait800",
                  firstIndex |-> flippedCards[1],
                  secondIndex |-> index,
                  matches |-> cards[flippedCards[1] + 1].matchId
                                = cards[index + 1].matchId,
                  ticked |-> FALSE]
       ELSE UNCHANGED <<disableClicks, checkMatch>>
    /\ UNCHANGED <<cards, gameStarted, gameDifficulty, timer, isRunning, gameOver,
                   matchedCards, submitted, service, chain>>

\* the win condition of the effect on [matchedCards, cards]
WinCondition(matched) == Len(cards) # 0 /\ Len(matched) = Len(cards)

\* checkMatch after its 800 ms: a match is added to matchedCards, and the
\* effect on [matchedCards, cards] ends the game as a win when every card is
\* matched
CheckMatchResolve ==
    /\ checkMatch.pc = "wait800"
    /\ IF checkMatch.matches
       THEN LET matched == matchedCards
                            \o <<checkMatch.firstIndex, checkMatch.secondIndex>>
            IN /\ matchedCards' = matched
               /\ checkMatch' = [checkMatch EXCEPT !.pc = "wait300", !.ticked = FALSE]
               /\ IF WinCondition(matched)
                  THEN /\ gameOver' = TRUE
                       /\ isRunning' = FALSE
                       /\ submitted' = Append(submitted, UpdateGameStats(TRUE, timer))
                  ELSE UNCHANGED <<gameOver, isRunning, submitted>>
       ELSE /\ checkMatch' = [checkMatch EXCEPT !.pc = "wait500", !.ticked = FALSE]
            /\ UNCHANGED <<matchedCards, gameOver, isRunning, submitted>>
    /\ UNCHANGED <<cards, gameStarted, gameDifficulty, timer, flippedCards,
                   disableClicks, service, chain>>

\* checkMatch after its second wait (300 ms or 500 ms)
CheckMatchFinish ==
    /\ checkMatch.pc \in {"wait300", "wait500"}
    /\ flippedCards' = <<>>
    /\ disableClicks' = FALSE
    /\ checkMatch' = NoCheck
    /\ UNCHANGED <<cards, gameStarted, gameDifficulty, timer, isRunning, gameOver,
                   matchedCards, submitted, service, chain>>

\* the cards a player is made to click: the first face-down card, and after it
\* its partner or the first other face-down card
ClicksTried ==
    LET free == {i \in 0..(Len(cards) - 1) :
                    ~Includes(flippedCards, i) /\ ~Includes(matchedCards, i)}
        first(set) == {i \in set : \A k \in set : i <= k}
    IN IF flippedCards = <<>> THEN first(free)
       ELSE LET partners == {i \in free : cards[i + 1].matchId
                                            = cards[flippedCards[1] + 1].matchId}
            IN partners \cup first(free \ partners)

\* The difficulty conversion of the game service
\* (src/frontend/src/web3/gameService.js).

\* the string of the given letters, in lower case
Plain(letters) ==
    [i \in 1..Len(letters) |-> [letter |-> letters[i], upper |-> FALSE]]

\* the spellings of a word in every mix of upper and lower case
CaseVariants(letters) ==
    {[i \in 1..Len(letters) |-> [letter |-> letters[i], upper |-> mask[i]]] :
        mask \in [1..Len(letters) -> BOOLEAN]}

\* String.prototype.toLowerCase
ToLowerCase(text) == [i \in 1..Len(text) |-> [text[i] EXCEPT !.upper = FALSE]]

\* difficultyMap[key]: the own properties of the object literal, and the
\* constructor it inherits from Object.prototype
DifficultyMapLookup(key) ==
    IF key = Plain(<<"e", "a", "s", "y">>) THEN Number(0)
    ELSE IF key = Plain(<<"m", "e", "d", "i", "u", "m">>) THEN Number(1)
    ELSE IF key = Plain(<<"h", "a", "r", "d">>) THEN Number(2)
    ELSE IF key = Plain(<<"c", "o", "n", "s", "t", "r", "u", "c", "t", "o", "r">>)
    THEN Valueless("function")
    ELSE Undefined

\* the values the || operator takes as false, among those of the lookup
Falsy(v) == v.type = "undefined" \/ (v.type = "number" /\ v.number = 0)

\* a || b
Or(a, b) == IF Falsy(a) THEN b ELSE a

GetDifficultyNumber(difficulty) ==
    IF difficulty.type = "number" THEN difficulty
    ELSE IF difficulty.type = "string"
    THEN Or(DifficultyMapLookup(ToLowerCase(difficulty.text)), Number(1))
    ELSE Number(1)

\* the arguments tried: numbers, every spelling of the three names, other
\* strings, and values that are neither
DifficultyArgs ==
    {Number(n) : n \in 0..3}
    \cup {String(text) : text \in CaseVariants(<<"e", "a", "s", "y">>)
                                 \cup CaseVariants(<<"m", "e", "d", "i", "u", "m">>)
                                 \cup CaseVariants(<<"h", "a", "r", "d">>)
                                 \cup {<<>>, Plain(<<"e", "x", "p", "e", "r", "t">>),
                                       Plain(<<"c", "o", "n", "s", "t", "r", "u", "c", "t", "o", "r">>)}}
    \cup {Undefined, Valueless("null"), Valueless("boolean")}

\* const difficultyNum = this.getDifficultyNumber(difficulty)
CallGetDifficultyNumber(difficulty) ==
    /\ difficultyArg' = difficulty
    /\ difficultyNum' = GetDifficultyNumber(difficulty)
    /\ UNCHANGED <<cards, gameStarted, gameDifficulty, play, chain>>

\* every call the given senders can make with arguments from the given sets
NextOver(senders, names, wons, difficulties, timeSpents, dailies) ==
    \/ \E sender \in senders, displayName \in names :
          RegisterUser(sender, displayName)
    \/ \E sender \in senders, won \in wons, difficulty \in difficulties,
          timeSpent \in timeSpents, isDailyChallenge \in dailies :
          RecordGame(sender, won, difficulty, timeSpent, isDailyChallenge)
    \/ Tick

\* one player, every difficulty and game kind: the points policy and the
\* preconditions of recordGame
SpecPoints ==
    Init /\ [][NextOver({"A"}, {NameA}, BOOLEAN, Difficulties, {30}, BOOLEAN)]_vars

\* two players, every completion time: the aggregate statistics
SpecTimes ==
    Init /\ [][NextOver({"A", "B"}, {NameA}, BOOLEAN, {0}, TimeSpents, {FALSE})]_vars

\* two players, every display name: the registry
SpecNames ==
    Init /\ [][NextOver({"A", "B"}, Names, BOOLEAN, {1}, {30}, {FALSE})]_vars

\* one player, daily challenges on several days and at several times of a day
SpecDaily ==
    Init /\ [][\/ NextOver({"A"}, {NameA}, BOOLEAN, {0, 2}, {30}, BOOLEAN)
               \/ TickSecond]_vars

\* one player winning daily challenges on days a day and thirty days apart:
\* the date-keys of getCurrentDate
SpecCalendar ==
    Init /\ [][\/ NextOver({"A"}, {NameA}, BOOLEAN, {0}, {30}, BOOLEAN)
               \/ TickMonth]_vars

\* the game screen: choosing a difficulty, starting and restarting games
SpecScreen ==
    Init /\ [][\/ \E name \in DifficultyNames : SetDifficulty(name)
               \/ \E shift \in Shifts(gameDifficulty) : StartGame(shift)
               \/ \E shift \in Shifts(gameDifficulty) : RestartGame(shift)
               \/ ReturnToHome]_vars

\* a game session: the timer, the clicks on cards and the checks of flipped
\* pairs; the buttons are pressed between checks
SpecSession ==
    Init /\ [][\/ \E name \in DifficultyNames : SetDifficulty(name)
               \/ StartGame(0)
               \/ checkMatch.pc = "idle" /\ RestartGame(0)
               \/ checkMatch.pc = "idle" /\ ReturnToHome
               \/ \E index \in ClicksTried : HandleCardClick(index)
               \/ TimerTick
               \/ CheckMatchResolve
               \/ CheckMatchFinish]_vars

\* two players winning games, renames and daily challenges: what a call
\* leaves alone
SpecFrame ==
    Init /\ [][NextOver({"A", "B"}, {NameA}, {TRUE}, {0}, {30}, BOOLEAN)]_vars

\* the difficulty conversion applied to every argument tried
SpecService ==
    Init /\ [][\E difficulty \in DifficultyArgs :
                  CallGetDifficultyNumber(difficulty)]_vars

\* three players with different scores: leaderboard and rank
SpecBoard ==
    Init /\ [][NextOver(Addrs, {NameA}, {TRUE}, {0, 2}, {30}, {FALSE})]_vars

(***************************************************************************)
(* Vocabulary of the properties.                                           *)
(***************************************************************************)
\* the registered identities
Registered == {a \in Addrs : users[a].exists}

\* the limits getLeaderboard accepts that are tried: below, at and above the
\* number of identities, and the largest
ValidLimits == (1..(Cardinality(Addrs) + 1)) \cup {MAX_LIMIT}

\* position of a registered identity in the registration order
RegistrationIndex(a) ==
    CHOOSE i \in 1..Len(userAddresses) : userAddresses[i] = a

\* the reward the points policy prescribes
PolicyPoints(won, difficulty, isDailyChallenge) ==
    IF won
    THEN (CASE difficulty = 0 -> 50 [] difficulty = 1 -> 100 [] difficulty = 2 -> 150)
         * (IF isDailyChallenge THEN 2 ELSE 1)
    ELSE 0

\* the number of registered identities other than a with strictly more points
StrictlyAhead(a) ==
    Cardinality({b \in Registered \ {a} :
                    users[b].totalPoints > users[a].totalPoints})

\* number of characters of a display name
RECURSIVE Characters(_, _)
Characters(name, runs) ==
    IF runs = 0 THEN 0 ELSE name[runs].count + Characters(name, runs - 1)

\* number of bytes of the UTF-8 encoding of a display name
RECURSIVE Utf8Bytes(_, _)
Utf8Bytes(name, runs) ==
    IF runs = 0 THEN 0
    ELSE name[runs].count * name[runs].width + Utf8Bytes(name, runs - 1)

\* the error kinds of the specification, as the reasons the contract reverts with
UserNotFound == {"User not registered"}
InvalidInput == {"Display name cannot be empty", "Display name too long",
                 "Invalid difficulty level", "Invalid limit"}

(***************************************************************************)
(* Properties.                                                             *)
(***************************************************************************)
\* C1: a successful recordGame with difficulty in {0,1,2} earns 0 points when
\* lost and base(difficulty) * (daily ? 2 : 1) when won, with base 50, 100,
\* 150; the caller's totalPoints grows by exactly that amount.
C1_PointsAwarded ==
    [][\A sender \in Addrs, won \in BOOLEAN, difficulty \in 0..2,
          timeSpent \in TimeSpents, daily \in BOOLEAN :
          (RecordGame(sender, won, difficulty, timeSpent, daily) /\ revert' = "")
          => /\ gameResults'[totalGames'].pointsEarned
                    = PolicyPoints(won, difficulty, daily)
             /\ events'[Len(events')].pointsEarned
                    = PolicyPoints(won, difficulty, daily)
             /\ users'[sender].totalPoints
                    = users[sender].totalPoints + PolicyPoints(won, difficulty, daily)
      ]_vars

\* a won Hard daily game has been recorded and awarded 300 points
C1_Witness ==
    \E g \in DOMAIN gameResults :
        /\ gameResults[g].won
        /\ gameResults[g].difficulty = 2
        /\ gameResults[g].isDailyChallenge
        /\ gameResults[g].pointsEarned = 300
        /\ users[gameResults[g].player].totalPoints = 300

\* C2: in every reachable state every User record has gamesWon <= gamesPlayed.
C2_WonAtMostPlayed ==
    \A a \in Addrs : users[a].gamesWon <= users[a].gamesPlayed

\* one identity has won every game it played, another has lost one
C2_Witness ==
    /\ \E a \in Addrs : users[a].gamesPlayed = 1 /\ users[a].gamesWon = 1
    /\ \E a \in Addrs : users[a].gamesPlayed = 1 /\ users[a].gamesWon = 0

\* C3: once bestTime is set no step raises it or resets it to unset; it changes
\* only in a recordGame by that identity with won = true and timeSpent > 0, and
\* a loss or a win with timeSpent = 0 leaves it unchanged.
C3_BestTimeOnlyLowered ==
    [][/\ \A a \in Addrs :
            users[a].bestTime # 0
            => users'[a].bestTime # 0 /\ users'[a].bestTime <= users[a].bestTime
       /\ \A a \in Addrs :
            users'[a].bestTime # users[a].bestTime
            => \E difficulty \in Difficulties, timeSpent \in TimeSpents,
                  daily \in BOOLEAN :
                  /\ timeSpent > 0
                  /\ RecordGame(a, TRUE, difficulty, timeSpent, daily)
                  /\ revert' = ""
       /\ \A sender \in Addrs, won \in BOOLEAN, difficulty \in Difficulties,
             timeSpent \in TimeSpents, daily \in BOOLEAN :
            (RecordGame(sender, won, difficulty, timeSpent, daily)
                /\ (~won \/ timeSpent = 0))
            => users'[sender].bestTime = users[sender].bestTime
      ]_vars

\* an identity with best time 30 has then won a slower game, in 999
C3_Witness ==
    /\ totalGames = 2
    /\ gameResults[1].player = gameResults[2].player
    /\ gameResults[1].won /\ gameResults[1].timeSpent = 30
    /\ gameResults[2].won /\ gameResults[2].timeSpent = 999
    /\ users[gameResults[1].player].bestTime = 30

\* C4: for every limit in 1..100 getLeaderboard(limit) holds the identities
\* with the highest points among all registered identities: no identity left
\* out has strictly more points than one included.
C4_TopAmongAll ==
    \A limit \in ValidLimits :
        LET board == GetLeaderboard(limit)
            included == {board.topUsers[p] : p \in DOMAIN board.topUsers}
        IN \A out \in Registered \ included, p \in DOMAIN board.topUsers :
              users[out].totalPoints <= board.topPoints[p]

\* C5: for every limit in 1..100 the result of getLeaderboard(limit) has
\* length min(limit, totalUsers), holds no identity twice, pairs each identity
\* with its current totalPoints, is non-increasing in points and lists equal
\* points in registration order.
C5_LeaderboardShape ==
    \A limit \in ValidLimits :
        LET board == GetLeaderboard(limit)
            n == IF limit < totalUsers THEN limit ELSE totalUsers
        IN /\ board.revert = ""
           /\ DOMAIN board.topUsers = 0..(n - 1)
           /\ DOMAIN board.topPoints = 0..(n - 1)
           /\ \A p \in 0..(n - 1) :
                /\ board.topUsers[p] \in Registered
                /\ board.topPoints[p] = users[board.topUsers[p]].totalPoints
           /\ \A p, q \in 0..(n - 1) :
                p < q =>
                  /\ board.topUsers[p] # board.topUsers[q]
                  /\ board.topPoints[p] >= board.topPoints[q]
                  /\ board.topPoints[p] = board.topPoints[q]
                     => RegistrationIndex(board.topUsers[p])
                          < RegistrationIndex(board.topUsers[q])

\* three identities; the first registered is last on the board, behind two
\* tied identities
C5_Witness ==
    /\ totalUsers = 3
    /\ LET board == GetLeaderboard(3)
       IN /\ board.topPoints[0] = board.topPoints[1]
          /\ board.topPoints[1] > board.topPoints[2]
          /\ board.topUsers[2] = userAddresses[1]

\* C6: getUserRank is 0 for an unregistered identity and otherwise 1 + the
\* number of other registered identities with strictly more points; so equal
\* points give equal ranks, points above everyone else's give rank 1, and a
\* registered identity's rank lies in 1..totalUsers.
C6_RankFormula ==
    /\ \A a \in Addrs \ Registered : GetUserRank(a) = 0
    /\ \A a \in Registered :
         /\ GetUserRank(a) = 1 + StrictlyAhead(a)
         /\ GetUserRank(a) \in 1..totalUsers
         /\ (\A b \in Registered \ {a} :
                users[a].totalPoints > users[b].totalPoints)
            => GetUserRank(a) = 1
    /\ \A a, b \in Registered :
         users[a].totalPoints = users[b].totalPoints
         => GetUserRank(a) = GetUserRank(b)

\* three registered identities hold ranks 1, 2 and 3
C6_Witness ==
    /\ totalUsers = 3
    /\ {GetUserRank(a) : a \in Addrs} = {1, 2, 3}

\* C7 as claimed: the ranks held by the registered identities are exactly
\* 1..d, d the number of distinct totalPoints values among them.
C7_RanksDense ==
    {GetUserRank(a) : a \in Registered}
        = 1..Cardinality({users[a].totalPoints : a \in Registered})

\* C7 as amended: tied identities share a rank, the number of distinct ranks
\* held is d, the best rank held is 1, and the rank below a rank r held by k
\* identities is r + k (rank numbers are skipped after a tie).
C7_RanksShared ==
    LET ranks == {GetUserRank(a) : a \in Registered}
        holders(r) == {a \in Registered : GetUserRank(a) = r}
    IN /\ Cardinality(ranks)
            = Cardinality({users[a].totalPoints : a \in Registered})
       /\ Registered # {} => 1 \in ranks
       /\ \A r \in ranks :
            /\ \A a, b \in holders(r) : users[a].totalPoints = users[b].totalPoints
            /\ \/ r + Cardinality(holders(r)) \in ranks
               \/ r + Cardinality(holders(r)) = totalUsers + 1

\* two identities tied at rank 1 and the third at rank 3
C7_Witness ==
    /\ totalUsers = 3
    /\ {GetUserRank(a) : a \in Registered} = {1, 3}

C9_RecordGamePreconditions ==
    [][\A sender \in Addrs, won \in BOOLEAN, difficulty \in Difficulties,
          timeSpent \in TimeSpents, daily \in BOOLEAN :
          RecordGame(sender, won, difficulty, timeSpent, daily)
          => /\ ~users[sender].exists => revert' \in UserNotFound
             /\ (users[sender].exists /\ difficulty \notin 0..2)
                => revert' = "Invalid difficulty level"
             /\ (~users[sender].exists \/ difficulty \notin 0..2)
                => /\ ledger' = ledger
                   /\ events' = <<>>
             /\ (users[sender].exists /\ difficulty \in 0..2) => revert' = ""
      ]_vars

\* a registered identity with a recorded game was refused an invalid difficulty
C9_Witness ==
    /\ revert = "Invalid difficulty level"
    /\ events = <<>>
    /\ totalGames = 1

GamesOf(u) == {g \in DOMAIN gameResults : gameResults[g].player = u}

\* the id of the k-th game an identity has recorded, k = 1, 2, ...
NthGameOf(u, k) ==
    CHOOSE g \in GamesOf(u) : Cardinality({h \in GamesOf(u) : h < g}) = k - 1

\* the date-keys tried: one for each day the clock can reach, and one more
DateKeysTried ==
    {GetCurrentDate(Genesis + k * SECONDS_PER_DAY) : k \in 0..(MaxDays + 1)}

\* the ids of the won daily-challenge games of an identity recorded at a time
\* with the given date-key
WonDailyGames(u, d) ==
    {g \in GamesOf(u) : /\ gameResults[g].won
                        /\ gameResults[g].isDailyChallenge
                        /\ GetCurrentDate(gameResults[g].timestamp) = d}

\* the largest number of a non-empty finite set of numbers
Latest(S) == CHOOSE g \in S : \A h \in S : h <= g

\* the offsets and limits tried for getUserGames: the small numbers around the
\* number of games, and the largest numbers of the type
PageOffsets == {Word(k) : k \in 0..(MaxGames + 1)} \cup {WordFromMax(0)}
PageLimits ==
    {Word(k) : k \in 0..(MaxGames + 1)} \cup {WordFromMax(0), WordFromMax(1)}

\* offset + limit exceeds the integer range
ExceedsRange(offset, limit) == limit.top /\ offset.n > limit.n

\* min(limit, available), for a limit given as a word
AtMost(limit, available) ==
    IF limit.top \/ limit.n > available THEN available ELSE limit.n

(***************************************************************************)
(* Properties of games and daily challenges.                               *)
(***************************************************************************)
\* C11: every stored GameResult of a lost game has timeSpent = 0 and
\* pointsEarned = 0 whatever time was supplied, and the GameResult stored by a
\* won recordGame has the timeSpent supplied.
C11_LossStoresNoTime ==
    /\ [](\A g \in DOMAIN gameResults :
             ~gameResults[g].won
             => gameResults[g].timeSpent = 0 /\ gameResults[g].pointsEarned = 0)
    /\ [][\A sender \in Addrs, won \in BOOLEAN, difficulty \in Difficulties,
             timeSpent \in TimeSpents, daily \in BOOLEAN :
             (RecordGame(sender, won, difficulty, timeSpent, daily) /\ revert' = "")
             => gameResults'[totalGames'].timeSpent
                   = (IF won THEN timeSpent ELSE 0)
         ]_vars

\* a game lost after 999 seconds is stored with time 0, a game won in 999
\* seconds with time 999
C11_Witness ==
    /\ totalGames = 2
    /\ ~gameResults[1].won /\ gameResults[1].timeSpent = 0
    /\ gameResults[2].won /\ gameResults[2].timeSpent = 999
    /\ Len(events) = 1 /\ events[1].timeSpent = 999

\* C12: the stored game ids are exactly 1..totalGames, the record under id g
\* has gameId g, the n-th successful recordGame receives id n, and a failed
\* recordGame consumes no id.
C12_DenseGameIds ==
    /\ [](/\ DOMAIN gameResults = 1..totalGames
          /\ \A g \in DOMAIN gameResults : gameResults[g].gameId = g)
    /\ [][\A sender \in Addrs, won \in BOOLEAN, difficulty \in Difficulties,
             timeSpent \in TimeSpents, daily \in BOOLEAN :
             RecordGame(sender, won, difficulty, timeSpent, daily)
             => IF revert' = ""
                THEN /\ Cardinality(DOMAIN gameResults') =
                            Cardinality(DOMAIN gameResults) + 1
                     /\ DOMAIN gameResults' \ DOMAIN gameResults
                            = {Cardinality(DOMAIN gameResults) + 1}
                     /\ events'[Len(events')].gameId
                            = Cardinality(DOMAIN gameResults) + 1
                     /\ totalGames' = Cardinality(DOMAIN gameResults) + 1
                ELSE /\ totalGames' = totalGames
                     /\ DOMAIN gameResults' = DOMAIN gameResults
         ]_vars

\* two games are stored under ids 1 and 2 and a further recordGame, by an
\* unregistered identity, has just failed
C12_Witness ==
    /\ DOMAIN gameResults = {1, 2}
    /\ gameResults[1].gameId = 1 /\ gameResults[2].gameId = 2
    /\ totalGames = 2
    /\ revert = "User not registered"

\* C13: a stored GameResult is never changed and never removed by a later
\* step.
C13_GameResultImmutable ==
    [][\A g \in DOMAIN gameResults :
          /\ g \in DOMAIN gameResults'
          /\ gameResults'[g] = gameResults[g]
      ]_vars

\* the player of the first game has recorded a second one and been renamed
C13_Witness ==
    /\ totalGames = 2
    /\ gameResults[1].player = gameResults[2].player
    /\ gameResults[1].timestamp < gameResults[2].timestamp
    /\ Len(events) = 1
    /\ events[1].type = "DisplayNameUpdated"
    /\ events[1].user = gameResults[1].player

\* C14: isDailyChallengeCompleted(u, d) is true exactly when u has recorded a
\* won daily-challenge game at a time with date-key d; a lost daily game, a
\* won non-daily game and a register leave every DailyChallenge record
\* unchanged, and a completed flag never returns to false.
C14_DailyCompletedExactly ==
    /\ [](\A u \in Addrs, d \in DateKeysTried :
             IsDailyChallengeCompleted(u, d) <=> WonDailyGames(u, d) # {})
    /\ [][/\ \A sender \in Addrs, won \in BOOLEAN, difficulty \in Difficulties,
                timeSpent \in TimeSpents, daily \in BOOLEAN :
                (RecordGame(sender, won, difficulty, timeSpent, daily)
                    /\ ~(won /\ daily))
                => dailyChallenges' = dailyChallenges
          /\ \A sender \in Addrs, displayName \in Names :
                RegisterUser(sender, displayName)
                => dailyChallenges' = dailyChallenges
          /\ \A u \in Addrs, d \in DateKeysTried :
                IsDailyChallengeCompleted(u, d)
                => IsDailyChallengeCompleted(u, d)'
         ]_vars

\* an identity has completed the challenge of the first day and lost the
\* daily game of the next day
C14_Witness ==
    /\ totalGames = 2
    /\ gameResults[1].player = gameResults[2].player
    /\ gameResults[1].won /\ gameResults[1].isDailyChallenge
    /\ gameResults[1].timestamp < Genesis + SECONDS_PER_DAY
    /\ ~gameResults[2].won /\ gameResults[2].isDailyChallenge
    /\ gameResults[2].timestamp >= Genesis + SECONDS_PER_DAY
    /\ IsDailyChallengeCompleted(gameResults[1].player, GetCurrentDate(Genesis))
    /\ ~IsDailyChallengeCompleted(gameResults[1].player, GetCurrentDate(now))

\* C15: a completed DailyChallenge record of u for date-key d has the
\* difficulty, pointsEarned and completedAt of the most recent won
\* daily-challenge game of u recorded under d.
C15_DailyRecordIsLatest ==
    \A u \in Addrs, d \in DateKeysTried :
        IsDailyChallengeCompleted(u, d)
        => /\ WonDailyGames(u, d) # {}
           /\ LET last == gameResults[Latest(WonDailyGames(u, d))]
                  record == dailyChallenges[<<u, d>>]
              IN /\ record.date = d
                 /\ record.difficulty = last.difficulty
                 /\ record.pointsEarned = last.pointsEarned
                 /\ record.completedAt = last.timestamp

\* an identity has completed the same day's challenge twice, first at Hard
\* and a second later at Easy, and the record is that of the Easy game
C15_Witness ==
    /\ totalGames = 2
    /\ gameResults[1].player = gameResults[2].player
    /\ gameResults[1].won /\ gameResults[1].isDailyChallenge
    /\ gameResults[2].won /\ gameResults[2].isDailyChallenge
    /\ gameResults[1].difficulty = 2 /\ gameResults[2].difficulty = 0
    /\ gameResults[2].timestamp = gameResults[1].timestamp + 1
    /\ dailyChallenges[<<gameResults[1].player, GetCurrentDate(now)>>].pointsEarned
            = 100

\* C16: getUserGames fails with OutOfRange whenever the offset is not below
\* the number of games the identity has recorded: at offset 0 for an identity
\* without games, at any offset for an unregistered identity.
C16_OffsetOutOfRange ==
    \A u \in Addrs, offset \in PageOffsets, limit \in PageLimits :
        /\ (offset.top \/ offset.n >= Cardinality(GamesOf(u)))
           => /\ GetUserGames(u, offset, limit).revert = "Offset out of bounds"
              /\ GetUserGames(u, offset, limit).results = <<>>
        /\ u \notin Registered => Cardinality(GamesOf(u)) = 0

\* a registered identity without games is refused offset 0 and an identity
\* with two games is refused offset 2
C16_Witness ==
    /\ \E u \in Registered :
          /\ userGameIds[u] = <<>>
          /\ GetUserGames(u, Word(0), Word(1)).revert = "Offset out of bounds"
    /\ \E u \in Registered :
          /\ Len(userGameIds[u]) = 2
          /\ GetUserGames(u, Word(2), Word(1)).revert = "Offset out of bounds"
          /\ GetUserGames(u, Word(1), Word(1)).revert = ""

\* C17: when the offset is below the number n of games of the identity and
\* offset + limit stays in the integer range, getUserGames returns exactly
\* min(limit, n - offset) results, the i-th being the (offset + i)-th game the
\* identity recorded, with strictly increasing gameId; limit 0 returns none.
C17_PageOfGames ==
    \A u \in Addrs, offset \in PageOffsets, limit \in PageLimits :
        (~offset.top /\ offset.n < Cardinality(GamesOf(u))
            /\ ~ExceedsRange(offset, limit))
        => LET page == GetUserGames(u, offset, limit)
               size == AtMost(limit, Cardinality(GamesOf(u)) - offset.n)
           IN /\ page.revert = ""
              /\ DOMAIN page.results = 0..(size - 1)
              /\ \A i \in 0..(size - 1) :
                    page.results[i] = gameResults[NthGameOf(u, offset.n + i + 1)]
              /\ \A i, j \in 0..(size - 1) :
                    i < j => page.results[i].gameId < page.results[j].gameId
              /\ limit = Word(0) => page.results = <<>>

\* an identity with two games is served its second game alone from offset 1
C17_Witness ==
    \E u \in Registered :
        /\ Len(userGameIds[u]) = 2
        /\ DOMAIN GetUserGames(u, Word(1), Word(3)).results = {0}
        /\ GetUserGames(u, Word(1), Word(3)).results[0].gameId = 2
        /\ DOMAIN GetUserGames(u, Word(0), WordFromMax(0)).results = {0, 1}

\* C18: for every offset below the number of games of the identity and every
\* limit of the unsigned integer type, the largest included, getUserGames
\* succeeds.
C18_NoLimitFails ==
    \A u \in Addrs, offset \in PageOffsets, limit \in PageLimits :
        (~offset.top /\ offset.n < Cardinality(GamesOf(u)))
        => GetUserGames(u, offset, limit).revert = ""

\* C19: totalUsers is the number of identities with a record and the length of
\* the registration order, which lists each of them once; totalGames is the
\* number of stored GameResults; totalUsers grows by 1 on a first registration,
\* totalGames by 1 on a successful recordGame, and neither changes otherwise.
C19_Counters ==
    /\ [](/\ totalUsers = Cardinality(Registered)
          /\ totalUsers = Len(userAddresses)
          /\ \A a \in Registered :
                Cardinality({i \in 1..Len(userAddresses) : userAddresses[i] = a}) = 1
          /\ totalGames = Cardinality(DOMAIN gameResults))
    /\ [][/\ \A sender \in Addrs, displayName \in Names :
                RegisterUser(sender, displayName)
                => /\ totalGames' = totalGames
                   /\ totalUsers' =
                        (IF revert' = "" /\ ~users[sender].exists
                         THEN totalUsers + 1 ELSE totalUsers)
          /\ \A sender \in Addrs, won \in BOOLEAN, difficulty \in Difficulties,
                timeSpent \in TimeSpents, daily \in BOOLEAN :
                RecordGame(sender, won, difficulty, timeSpent, daily)
                => /\ totalUsers' = totalUsers
                   /\ totalGames' =
                        (IF revert' = "" THEN totalGames + 1 ELSE totalGames)
          /\ totalUsers' >= totalUsers
          /\ totalGames' >= totalGames
         ]_vars

\* two identities and two games are counted, and a rename has changed neither
\* counter
C19_Witness ==
    /\ totalUsers = 2
    /\ totalGames = 2
    /\ Len(events) = 1
    /\ events[1].type = "DisplayNameUpdated"

\* C20: a successful recordGame of a won daily challenge emits exactly
\* DailyChallengeCompleted and then GameCompleted, every other successful
\* recordGame emits exactly one GameCompleted, and the DailyChallengeCompleted
\* fact carries the date-key under which the record was stored.
C20_FactOrder ==
    [][\A sender \in Addrs, won \in BOOLEAN, difficulty \in Difficulties,
          timeSpent \in TimeSpents, daily \in BOOLEAN :
          (RecordGame(sender, won, difficulty, timeSpent, daily) /\ revert' = "")
          => IF won /\ daily
             THEN /\ Len(events') = 2
                  /\ events'[1].type = "DailyChallengeCompleted"
                  /\ events'[2].type = "GameCompleted"
                  /\ events'[1].user = sender
                  /\ <<sender, events'[1].date>> \in DOMAIN dailyChallenges'
                  /\ dailyChallenges'[<<sender, events'[1].date>>].date
                        = events'[1].date
                  /\ dailyChallenges'[<<sender, events'[1].date>>].completedAt = now
                  /\ \A key \in DOMAIN dailyChallenges' \ {<<sender, events'[1].date>>} :
                        /\ key \in DOMAIN dailyChallenges
                        /\ dailyChallenges'[key] = dailyChallenges[key]
             ELSE /\ Len(events') = 1
                  /\ events'[1].type = "GameCompleted"
      ]_vars

\* a won daily challenge has just emitted its two facts on the second day
C20_Witness ==
    /\ Len(events) = 2
    /\ events[1].type = "DailyChallengeCompleted"
    /\ events[2].type = "GameCompleted"
    /\ events[1].date = GetCurrentDate(Genesis + SECONDS_PER_DAY)
    /\ IsDailyChallengeCompleted(events[1].user, events[1].date)

(***************************************************************************)
(* Properties of the facts, the registry and the aggregates.               *)
(***************************************************************************)
\* C21: the GameCompleted fact of a successful recordGame carries the caller,
\* the newly assigned gameId, won, difficulty, the computed points and the
\* timeSpent argument as supplied; for a lost game recorded with timeSpent
\* t > 0 the fact carries t while the GameResult stored under the same gameId
\* carries 0.
C21_FactCarriesRawTime ==
    [][\A sender \in Addrs, won \in BOOLEAN, difficulty \in Difficulties,
          timeSpent \in TimeSpents, daily \in BOOLEAN :
          (RecordGame(sender, won, difficulty, timeSpent, daily) /\ revert' = "")
          => LET fact == events'[Len(events')]
             IN /\ fact.type = "GameCompleted"
                /\ fact.user = sender
                /\ fact.gameId = totalGames + 1
                /\ fact.gameId \notin DOMAIN gameResults
                /\ fact.won = won
                /\ fact.difficulty = difficulty
                /\ fact.pointsEarned = PolicyPoints(won, difficulty, daily)
                /\ fact.timeSpent = timeSpent
                /\ gameResults'[fact.gameId].player = sender
                /\ (~won /\ timeSpent > 0)
                   => gameResults'[fact.gameId].timeSpent = 0
      ]_vars

\* the second game, lost after 999 seconds, has just emitted a fact carrying
\* 999 while its stored record carries 0
C21_Witness ==
    /\ totalGames = 2
    /\ Len(events) = 1
    /\ events[1].type = "GameCompleted"
    /\ events[1].gameId = 2
    /\ ~events[1].won
    /\ events[1].timeSpent = 999
    /\ gameResults[2].timeSpent = 0

\* C22: a successful register by an identity without a record creates the
\* record with the given name, zero points, games played and games won, best
\* time unset, lastGameAt 0, joinedAt the current time and exists true, appends
\* the identity at the end of the registration order and emits UserRegistered
\* alone; by an identity with a record it emits DisplayNameUpdated alone.
C22_RegisterCreates ==
    [][\A sender \in Addrs, displayName \in Names :
          (RegisterUser(sender, displayName) /\ revert' = "")
          => IF ~users[sender].exists
             THEN /\ users'[sender].displayName = displayName
                  /\ users'[sender].totalPoints = 0
                  /\ users'[sender].gamesPlayed = 0
                  /\ users'[sender].gamesWon = 0
                  /\ users'[sender].bestTime = 0
                  /\ users'[sender].lastGameAt = 0
                  /\ users'[sender].joinedAt = now
                  /\ users'[sender].exists
                  /\ Len(userAddresses') = Len(userAddresses) + 1
                  /\ userAddresses'[Len(userAddresses')] = sender
                  /\ \A i \in 1..Len(userAddresses) :
                        userAddresses'[i] = userAddresses[i]
                  /\ Len(events') = 1
                  /\ events'[1].type = "UserRegistered"
                  /\ events'[1].user = sender
                  /\ events'[1].displayName = displayName
             ELSE /\ Len(events') = 1
                  /\ events'[1].type = "DisplayNameUpdated"
                  /\ events'[1].user = sender
                  /\ events'[1].newDisplayName = displayName
      ]_vars

\* a second identity has just registered, a day after the first, under a name
\* of 50 bytes, and stands last in the registration order
C22_Witness ==
    /\ Len(events) = 1
    /\ events[1].type = "UserRegistered"
    /\ Len(userAddresses) = 2
    /\ userAddresses[2] = events[1].user
    /\ users[userAddresses[2]].joinedAt = now
    /\ users[userAddresses[1]].joinedAt < now
    /\ users[userAddresses[2]].displayName = NameFifty

\* C23: once an identity is registered, no step (a register or recordGame by
\* any identity, or the passing of time) changes its joinedAt, returns its
\* exists flag to false or moves it in the registration order.
C23_RegistrationPermanent ==
    [][\A a \in Addrs :
          users[a].exists
          => /\ users'[a].exists
             /\ users'[a].joinedAt = users[a].joinedAt
             /\ \A i \in 1..Len(userAddresses) :
                   userAddresses[i] = a
                   => i <= Len(userAddresses') /\ userAddresses'[i] = a
      ]_vars

\* the identity registered first, on the first day, has since played a game
\* and been renamed on a later day, after a second identity registered
C23_Witness ==
    /\ Len(userAddresses) = 2
    /\ users[userAddresses[1]].joinedAt = Genesis
    /\ users[userAddresses[2]].joinedAt > Genesis
    /\ users[userAddresses[1]].gamesPlayed = 1
    /\ users[userAddresses[1]].lastGameAt > Genesis
    /\ Len(events) = 1
    /\ events[1].type = "DisplayNameUpdated"
    /\ events[1].user = userAddresses[1]
    /\ now > Genesis

\* the limits tried for the precondition of getLeaderboard: 0, the small
\* limits, those around the largest accepted, and a large one
LimitsTried ==
    (0..(Cardinality(Addrs) + 1)) \cup {99, 100, 101, 65536}

\* C24: getLeaderboard(limit) fails, with InvalidInput, exactly when limit = 0
\* or limit > 100; for a limit in 1..100 it succeeds, and on an empty registry
\* it then returns two empty sequences.
C24_LimitPrecondition ==
    \A limit \in LimitsTried :
        LET board == GetLeaderboard(limit)
        IN /\ board.revert # "" <=> (limit = 0 \/ limit > 100)
           /\ board.revert # "" => board.revert \in InvalidInput
           /\ (limit \in 1..100 /\ totalUsers = 0)
              => board.topUsers = <<>> /\ board.topPoints = <<>>

\* on a registry still empty after a refused recordGame, the limits 0 and 101
\* are refused and the limits 1 and 100 give two empty sequences
C24_Witness ==
    /\ totalUsers = 0
    /\ userAddresses = <<>>
    /\ revert = "User not registered"
    /\ GetLeaderboard(0).revert = "Invalid limit"
    /\ GetLeaderboard(101).revert = "Invalid limit"
    /\ GetLeaderboard(1).revert = "" /\ GetLeaderboard(1).topUsers = <<>>
    /\ GetLeaderboard(100).revert = "" /\ GetLeaderboard(100).topPoints = <<>>

\* the day number of a time, and the 365-day cycle of a day number
DayNumber(t) == t \div SECONDS_PER_DAY
Cycle(day) == day \div 365

\* C25: any two times at which games were recorded whose day numbers differ
\* and lie in the same 365-day cycle have different date-keys, and so a
\* daily challenge completed for the date-key of the current day was won on
\* the current day.
C25_DistinctDaysDistinctKeys ==
    /\ \A g, h \in DOMAIN gameResults :
          (/\ DayNumber(gameResults[g].timestamp) # DayNumber(gameResults[h].timestamp)
           /\ Cycle(DayNumber(gameResults[g].timestamp))
                 = Cycle(DayNumber(gameResults[h].timestamp)))
          => GetCurrentDate(gameResults[g].timestamp)
                # GetCurrentDate(gameResults[h].timestamp)
    /\ \A u \in Addrs :
          (/\ IsDailyChallengeCompleted(u, GetCurrentDate(now))
           /\ \A g \in GamesOf(u) :
                 Cycle(DayNumber(gameResults[g].timestamp)) = Cycle(DayNumber(now)))
          => \E g \in GamesOf(u) :
                /\ gameResults[g].won /\ gameResults[g].isDailyChallenge
                /\ DayNumber(gameResults[g].timestamp) = DayNumber(now)

\* the cards on the board with a given matchId
CardsMatching(matchId) == {i \in 1..Len(cards) : cards[i].matchId = matchId}

\* the number of pairs the game description gives for a difficulty
DescribedPairs(name) ==
    CASE name = "Easy" -> 6 [] name = "Medium" -> 8 [] name = "Hard" -> 10

\* C26: a game started at difficulty Easy, Medium or Hard has 6, 8 or 10 pairs
\* on the board (12, 16 or 20 cards): every matchId on the board is on exactly
\* two cards, and there are as many matchIds as pairs.
C26_PairsDealt ==
    gameStarted
    => /\ Len(cards) = 2 * DescribedPairs(gameDifficulty)
       /\ Cardinality({cards[i].matchId : i \in 1..Len(cards)})
             = DescribedPairs(gameDifficulty)
       /\ \A i \in 1..Len(cards) :
             Cardinality(CardsMatching(cards[i].matchId)) = 2

\* the sum of pointsEarned over the GameResults of a list of game ids
RECURSIVE PointsOver(_)
PointsOver(gameIds) ==
    IF gameIds = <<>> THEN 0
    ELSE gameResults[Head(gameIds)].pointsEarned + PointsOver(Tail(gameIds))

\* the number of won GameResults of a list of game ids
WonOver(gameIds) ==
    Cardinality({i \in 1..Len(gameIds) : gameResults[gameIds[i]].won})

\* the sum of gamesPlayed over a set of identities
RECURSIVE PlayedBy(_)
PlayedBy(identities) ==
    IF identities = {} THEN 0
    ELSE LET a == CHOOSE b \in identities : TRUE
         IN users[a].gamesPlayed + PlayedBy(identities \ {a})

\* C27: for every registered identity gamesPlayed is the length of its list
\* of game ids, gamesWon the number of won GameResults in that list and
\* totalPoints the sum of their pointsEarned; the gamesPlayed of all identities
\* add up to totalGames, and no step lowers an identity's totalPoints.
C27_AggregatesMatchLedger ==
    /\ [](/\ \A u \in Registered :
                /\ users[u].gamesPlayed = Len(userGameIds[u])
                /\ users[u].gamesWon = WonOver(userGameIds[u])
                /\ users[u].totalPoints = PointsOver(userGameIds[u])
          /\ PlayedBy(Addrs) = totalGames)
    /\ [][\A u \in Addrs : users'[u].totalPoints >= users[u].totalPoints]_vars

\* of two identities one has won a game for 50 points and the other has lost
\* one
C27_Witness ==
    /\ totalGames = 2
    /\ \E a, b \in Registered :
          /\ a # b
          /\ users[a].gamesWon = 1 /\ users[a].totalPoints = 50
          /\ Len(userGameIds[a]) = 1
          /\ users[b].gamesPlayed = 1 /\ users[b].gamesWon = 0
          /\ users[b].totalPoints = 0

\* the places of all game-id lists at which an id stands
PlacesOf(gameId) ==
    {<<u, i>> \in Addrs \X (1..totalGames) :
        i <= Len(userGameIds[u]) /\ userGameIds[u][i] = gameId}

\* C28: the game-id lists of the identities partition 1..totalGames: each
\* list is strictly increasing, every id of the list of u is that of a
\* GameResult whose player is u, every id of 1..totalGames stands at exactly
\* one place of one list, and an unregistered identity has an empty list.
C28_ListsPartitionIds ==
    /\ \A u \in Addrs :
          /\ \A i, j \in 1..Len(userGameIds[u]) :
                i < j => userGameIds[u][i] < userGameIds[u][j]
          /\ \A i \in 1..Len(userGameIds[u]) :
                /\ userGameIds[u][i] \in 1..totalGames
                /\ gameResults[userGameIds[u][i]].player = u
          /\ u \notin Registered => userGameIds[u] = <<>>
    /\ \A g \in 1..totalGames : Cardinality(PlacesOf(g)) = 1

\* one identity holds the ids 1 and 2 in that order, next to a registered
\* identity without games
C28_Witness ==
    /\ totalGames = 2
    /\ \E u, v \in Registered :
          /\ userGameIds[u] = <<1, 2>>
          /\ userGameIds[v] = <<>>

\* the persisted times of the won games of an identity that took a time
TimedWins(u) ==
    {gameResults[g].timeSpent :
        g \in {h \in GamesOf(u) : gameResults[h].won /\ gameResults[h].timeSpent > 0}}

\* C29: for every registered identity bestTime is the least persisted
\* timeSpent over its won GameResults with timeSpent > 0, and it is 0 (unset)
\* exactly when the identity has no such GameResult.
C29_BestTimeIsMinimum ==
    \A u \in Registered :
        /\ users[u].bestTime = 0 <=> TimedWins(u) = {}
        /\ TimedWins(u) # {}
           => /\ users[u].bestTime \in TimedWins(u)
              /\ \A t \in TimedWins(u) : users[u].bestTime <= t

\* an identity that won in 30 seconds and then won again with no time
\* reported has best time 30, and a registered identity without wins has none
C29_Witness ==
    /\ totalGames = 2
    /\ gameResults[1].player = gameResults[2].player
    /\ gameResults[1].won /\ gameResults[1].timeSpent = 30
    /\ gameResults[2].won /\ gameResults[2].timeSpent = 0
    /\ users[gameResults[1].player].bestTime = 30
    /\ \E v \in Registered : users[v].bestTime = 0

\* C30: a successful recordGame with won = false adds 1 to the caller's
\* gamesPlayed and leaves the caller's totalPoints, gamesWon, bestTime,
\* displayName, joinedAt and exists as they were (lastGameAt may change); it
\* writes no DailyChallenge record, also when isDailyChallenge is true.
C30_LossFrame ==
    [][\A sender \in Addrs, difficulty \in Difficulties,
          timeSpent \in TimeSpents, daily \in BOOLEAN :
          (RecordGame(sender, FALSE, difficulty, timeSpent, daily) /\ revert' = "")
          => /\ users'[sender].gamesPlayed = users[sender].gamesPlayed + 1
             /\ \A f \in {"totalPoints", "gamesWon", "bestTime", "displayName",
                          "joinedAt", "exists"} :
                    users'[sender][f] = users[sender][f]
             /\ dailyChallenges' = dailyChallenges
      ]_vars

\* an identity that had won a game has lost a Hard daily challenge on a later
\* day: one more game played, no daily record
C30_Witness ==
    /\ totalGames = 2
    /\ gameResults[1].won
    /\ ~gameResults[2].won
    /\ gameResults[2].isDailyChallenge
    /\ gameResults[2].difficulty = 2
    /\ Len(events) = 1
    /\ events[1].type = "GameCompleted"
    /\ events[1].gameId = 2
    /\ dailyChallenges = <<>>
    /\ users["A"].gamesPlayed = 2
    /\ users["A"].gamesWon = 1
    /\ users["A"].bestTime = 30
    /\ users["A"].lastGameAt > users["A"].joinedAt

(***************************************************************************)
(* Properties of frames, time stamps, repeated completions and queries.    *)
(***************************************************************************)
\* the DailyChallenge records of an identity
DailyRecordsOf(mapping, u) ==
    [key \in {k \in DOMAIN mapping : k[1] = u} |-> mapping[key]]

C32_LastGameAt ==
    /\ [](\A u \in Registered :
             /\ users[u].lastGameAt =
                   (IF userGameIds[u] = <<>> THEN 0
                    ELSE gameResults[userGameIds[u][Len(userGameIds[u])]].timestamp)
             /\ users[u].lastGameAt # 0
                => users[u].lastGameAt >= users[u].joinedAt)
    /\ [][now' >= now
          => \A u \in Addrs : users'[u].lastGameAt >= users[u].lastGameAt]_vars

\* an identity registered on the first day won a game that day and lost one
\* on a later day, which is its last game
C32_Witness ==
    /\ totalGames = 2
    /\ gameResults[1].won /\ ~gameResults[2].won
    /\ gameResults[1].timestamp = users[gameResults[1].player].joinedAt
    /\ gameResults[2].timestamp > gameResults[1].timestamp
    /\ users[gameResults[2].player].lastGameAt = gameResults[2].timestamp
    /\ Len(events) = 1
    /\ events[1].type = "GameCompleted"

\* C33: a won daily-challenge recordGame by an identity whose DailyChallenge
\* record for the current date-key is already completed succeeds like any
\* other: it adds 1 to gamesWon and the doubled points to totalPoints again
\* and stores a further GameResult, so completions under one date-key earn
\* points as often as they are recorded.
C33_RepeatCompletionEarns ==
    [][\A sender \in Addrs, difficulty \in 0..2, timeSpent \in TimeSpents :
          (/\ RecordGame(sender, TRUE, difficulty, timeSpent, TRUE)
           /\ IsDailyChallengeCompleted(sender, GetCurrentDate(now)))
          => /\ revert' = ""
             /\ users'[sender].gamesWon = users[sender].gamesWon + 1
             /\ users'[sender].totalPoints
                   = users[sender].totalPoints + 2 * PolicyPoints(TRUE, difficulty, FALSE)
             /\ gameResults'[totalGames'].pointsEarned
                   = 2 * PolicyPoints(TRUE, difficulty, FALSE)
             /\ Cardinality(WonDailyGames(sender, GetCurrentDate(now)))'
                   = Cardinality(WonDailyGames(sender, GetCurrentDate(now))) + 1
      ]_vars

\* an identity has won the Hard daily challenge twice under one date-key and
\* holds 600 points
C33_Witness ==
    /\ totalGames = 2
    /\ Cardinality(WonDailyGames("A", GetCurrentDate(now))) = 2
    /\ gameResults[1].difficulty = 2 /\ gameResults[2].difficulty = 2
    /\ users["A"].gamesWon = 2
    /\ users["A"].totalPoints = 600
    /\ Len(events) = 2

\* the times tried for the date encoder: the first and the last second of
\* each of the 365 days from the current day on
DayStartsTried == {(DayNumber(now) + k) * 86400 : k \in 0..364}
TimesTried == DayStartsTried \cup {t + 86399 : t \in DayStartsTried}

\* the date-key the description gives for a time
DescribedKey(t) ==
    LET d == (t \div 86400) % 365
        m == d \div 30 + 1
    IN 2024 * 10000 + (IF m < 12 THEN m ELSE 12) * 100 + ((d % 30) + 1)

\* C34: for every time t, with d = floor(t / 86400) mod 365, the date-key is
\* 2024 * 10000 + min(floor(d / 30) + 1, 12) * 100 + (d mod 30 + 1); the times
\* of one day have one key, the month part of a key is in 1..12 and its day
\* part in 1..30; and every DailyChallenge record is stored under the key of
\* its completion time.
C34_DateKeyFormula ==
    /\ \A t \in TimesTried \cup {now} :
          /\ GetCurrentDate(t) = DescribedKey(t)
          /\ GetCurrentDate(t) = GetCurrentDate((t \div 86400) * 86400)
          /\ (GetCurrentDate(t) \div 100) % 100 \in 1..12
          /\ GetCurrentDate(t) % 100 \in 1..30
          /\ GetCurrentDate(t) \div 10000 = 2024
    /\ \A key \in DOMAIN dailyChallenges :
          /\ key[2] = DescribedKey(dailyChallenges[key].completedAt)
          /\ dailyChallenges[key].date = key[2]

\* a daily challenge has been completed on day 360 of a cycle, where the
\* month is clamped, under the key 20241201
C34_Witness ==
    \E key \in DOMAIN dailyChallenges :
        /\ DayNumber(dailyChallenges[key].completedAt) % 365 = 360
        /\ dailyChallenges[key].date = 20241201
        /\ IsDailyChallengeCompleted(key[1], 20241201)

\* the argument lists of recordGame tried for a pair of calls
CallsTried ==
    [won : BOOLEAN, difficulty : {0, 2}, timeSpent : {30}, daily : BOOLEAN]

\* the storage after a successful recordGame with the arguments c, made by
\* sender at the current time on the storage st
After(st, sender, c) ==
    RecordGameOn(st, now, sender, c.won, c.difficulty, c.timeSpent, c.daily)

\* C35: two successful recordGame calls by different identities at one clock
\* value give, in either order, the same User records (hence the same
\* leaderboard and ranks, which are computed from the User records and the
\* registration order), the same DailyChallenge records and totalGames, and
\* the same two GameResults with their gameIds exchanged; a call is one
\* transition from storage to storage.
C35_RecordGamesCommute ==
    /\ [](\A a, b \in Registered :
             RegistrationIndex(a) < RegistrationIndex(b)
             => \A ca, cb \in CallsTried :
                  LET ab == After(After(Ledger, a, ca), b, cb)
                      ba == After(After(Ledger, b, cb), a, ca)
                      n == totalGames
                  IN /\ ab.users = ba.users
                     /\ ab.userAddresses = ba.userAddresses
                     /\ ab.totalUsers = ba.totalUsers
                     /\ ab.dailyChallenges = ba.dailyChallenges
                     /\ ab.totalGames = ba.totalGames
                     /\ DOMAIN ab.gameResults = DOMAIN ba.gameResults
                     /\ \A g \in DOMAIN gameResults :
                           ab.gameResults[g] = ba.gameResults[g]
                     /\ ab.gameResults[n + 1]
                           = [ba.gameResults[n + 2] EXCEPT !.gameId = n + 1]
                     /\ ab.gameResults[n + 2]
                           = [ba.gameResults[n + 1] EXCEPT !.gameId = n + 2])
    /\ [][\A sender \in Addrs, won \in BOOLEAN, difficulty \in Difficulties,
             timeSpent \in TimeSpents, daily \in BOOLEAN :
             (RecordGame(sender, won, difficulty, timeSpent, daily) /\ revert' = "")
             => Ledger' = RecordGameOn(Ledger, now, sender, won, difficulty,
                                       timeSpent, daily)
         ]_vars

\* two identities have each won a daily challenge at the same clock value,
\* the second of them with the call just made
C35_Witness ==
    /\ totalGames = 2
    /\ gameResults[1].player # gameResults[2].player
    /\ gameResults[1].timestamp = gameResults[2].timestamp
    /\ gameResults[1].isDailyChallenge /\ gameResults[2].isDailyChallenge
    /\ Len(events) = 2
    /\ events[2].gameId = 2
    /\ now = gameResults[2].timestamp

\* C36: whenever totalUsers <= limit, the identity at the 0-based position p
\* of getLeaderboard(limit) has getUserRank 1 + the number of entries of the
\* leaderboard with strictly more points, which is 1 + the position of the
\* first entry with its points, and so at most p + 1.
C36_BoardAgreesWithRank ==
    \A limit \in ValidLimits :
        totalUsers <= limit
        => LET board == GetLeaderboard(limit)
               ahead(p) == {q \in DOMAIN board.topPoints :
                              board.topPoints[q] > board.topPoints[p]}
               first(p) == CHOOSE q \in DOMAIN board.topPoints :
                              /\ board.topPoints[q] = board.topPoints[p]
                              /\ \A r \in DOMAIN board.topPoints :
                                    board.topPoints[r] = board.topPoints[p] => q <= r
           IN \A p \in DOMAIN board.topUsers :
                 /\ GetUserRank(board.topUsers[p]) = 1 + Cardinality(ahead(p))
                 /\ GetUserRank(board.topUsers[p]) = 1 + first(p)
                 /\ GetUserRank(board.topUsers[p]) <= p + 1

\* on a full leaderboard of three the identity at position 1 is tied with the
\* leader at rank 1 and the identity at position 2 has rank 3
C36_Witness ==
    /\ totalUsers = 3
    /\ LET board == GetLeaderboard(MAX_LIMIT)
       IN /\ GetUserRank(board.topUsers[0]) = 1
          /\ GetUserRank(board.topUsers[1]) = 1
          /\ GetUserRank(board.topUsers[2]) = 3
          /\ board.topPoints[1] > board.topPoints[2]

Letters(text) == [i \in 1..Len(text) |-> text[i].letter]

\* C37: getDifficultyNumber returns 0, 1 and 2 for the strings easy, medium
\* and hard in any mix of upper and lower case, a number as it is given, and 1
\* for every other argument.
C37_DifficultyNumber ==
    difficultyNum.type # "undefined"
    => /\ difficultyNum.type = "number"
       /\ difficultyNum.number =
            (IF difficultyArg.type = "number" THEN difficultyArg.number
             ELSE IF difficultyArg.type # "string" THEN 1
             ELSE IF Letters(difficultyArg.text) = <<"e", "a", "s", "y">> THEN 0
             ELSE IF Letters(difficultyArg.text) = <<"m", "e", "d", "i", "u", "m">> THEN 1
             ELSE IF Letters(difficultyArg.text) = <<"h", "a", "r", "d">> THEN 2
             ELSE 1)

\* C39: a started game session makes at most one updateGameStats/recordGame
\* submission: after the timer has ended the session as a loss, no pending
\* check of a flipped pair completes the board and submits a win for the same
\* session.
C39_OneSubmissionPerSession == Len(submitted) <= 1

====
